---- MODULE Spec2Model ----
(***************************************************************************)
(* Model of the image-to-table pipeline of src-tauri (cv.rs, main.rs):     *)
(* quadrilateral selection, Poly::order, the Rect role permutation and the *)
(* destination pairing, and the row clustering of Table::try_from.         *)
(*                                                                         *)
(* Arithmetic conventions.  Lengths are kept squared (sqrt is monotone, so *)
(* f64::max of two lengths is the sqrt of the max of the squares).  The    *)
(* angle acos(y/length) is never computed: two angles are compared through *)
(* the exact order of y/length (acos is strictly decreasing).  The mean    *)
(* height is kept as the pair (sum, n) and compared exactly.               *)
(***************************************************************************)
EXTENDS Integers, Sequences, FiniteSets

VARIABLES pc, contours, biggest, ordered, biggest_rect, dims, boxes,
          mean_height, rows, result, written, ran

vars == <<pc, contours, biggest, ordered, biggest_rect, dims, boxes,
          mean_height, rows, result, written, ran>>

(* ------------------------------ bounds -------------------------------- *)
MaxCoord == 3
MaxContours == 2
MaxBoxes == 3
MaxX == 1
MaxY == 2
MaxH == 1
MaxGridRows == 3
MaxGridCols == 2

(* ----------------------------- geometry ------------------------------- *)
Pt(px, py) == [x |-> px, y |-> py]

Abs(n) == IF n < 0 THEN -n ELSE n

Max2(a, b) == IF a >= b THEN a ELSE b

\* i32 division truncates toward zero
TruncDiv(a, b) == IF a >= 0 THEN a \div b ELSE -((-a) \div b)

\* Point::length squared: x*x + y*y
PointLength2(p) == p.x * p.x + p.y * p.y

\* Line::length squared: dx*dx + dy*dy
LineLength2(p1, p2) == (p2.x - p1.x) * (p2.x - p1.x) + (p2.y - p1.y) * (p2.y - p1.y)

RECURSIVE SumX(_)
SumX(s) == IF s = <<>> THEN 0 ELSE Head(s).x + SumX(Tail(s))

RECURSIVE SumY(_)
SumY(s) == IF s = <<>> THEN 0 ELSE Head(s).y + SumY(Tail(s))

\* the integer-truncated centroid (the polygon is not empty)
Center(poly) == Pt(TruncDiv(SumX(poly), Len(poly)), TruncDiv(SumY(poly), Len(poly)))

Translate(poly) == [i \in 1..Len(poly) |-> Pt(poly[i].x - Center(poly).x, poly[i].y - Center(poly).y)]

\* .filter(|p| p.length() > 0.0)
NonZero(p) == PointLength2(p) > 0

FilterNonZero(s) == SelectSeq(s, NonZero)

SqSign(n) == IF n >= 0 THEN n * n ELSE -(n * n)

\* acos(p.y/|p|) < acos(q.y/|q|)  iff  p.y/|p| > q.y/|q|
AngleLess(p, q) == SqSign(p.y) * PointLength2(q) > SqSign(q.y) * PointLength2(p)

\* self.0.iter().zip(angles): as long as the shorter of the two
ZipAngles(poly, angles) ==
    [i \in 1..(IF Len(poly) <= Len(angles) THEN Len(poly) ELSE Len(angles)) |->
        [pt |-> poly[i], angle |-> angles[i]]]

PairLess(a, b) == AngleLess(a.angle, b.angle)

\* less[i][j]: the comparison of the sort finds s[i] before s[j]
LessTable(s, Less(_, _)) == [i \in 1..Len(s) |-> [j \in 1..Len(s) |-> Less(s[i], s[j])]]

\* the place a stable sort gives the element at index i
StablePos(s, i, less) ==
    Cardinality({j \in 1..Len(s) : less[j][i] \/ (~less[i][j] /\ j < i)}) + 1

FlippedPos(s, i, less) ==
    Cardinality({j \in 1..Len(s) : less[j][i] \/ (~less[i][j] /\ j > i)}) + 1

\* slice::sort_by / itertools sorted_by_key: a stable sort
StableSort(s, less) ==
    [k \in 1..Len(s) |-> s[CHOOSE i \in 1..Len(s) : StablePos(s, i, less) = k]]

FlippedSort(s, less) ==
    [k \in 1..Len(s) |-> s[CHOOSE i \in 1..Len(s) : FlippedPos(s, i, less) = k]]

SortPairsFlipped(pairs) == FlippedSort(pairs, LessTable(pairs, PairLess))

\* pts_with_angles.sort_by(|(_, a), (_, b)| a.total_cmp(b))
SortPairs(pairs) == StableSort(pairs, LessTable(pairs, PairLess))

\* Poly::order, the vector inside Some(..); None only for the empty polygon
Order(poly) ==
    IF poly = <<>> THEN <<>>
    ELSE LET angles == FilterNonZero(Translate(poly))
             sorted == SortPairs(ZipAngles(poly, angles))
         IN  [i \in 1..Len(sorted) |-> sorted[i].pt]

OrderIsSome(poly) == poly # <<>>

\* twice the value of contour_area (shoelace, oriented = false)
RECURSIVE Shoelace(_, _)
Shoelace(poly, i) ==
    IF i > Len(poly) THEN 0
    ELSE LET p == poly[IF i = 1 THEN Len(poly) ELSE i - 1]
             q == poly[i]
         IN  p.x * q.y - q.x * p.y + Shoelace(poly, i + 1)

ContourArea2(poly) == Abs(Shoelace(poly, 1))

(* ------------------------ candidate selection ------------------------- *)
\* a traced contour after convex_hull + approx_poly_dp: ok is the Result of
\* the closure, areaOk whether contour_area_def succeeds on the polygon
Cand(p, o, a) == [pts |-> p, ok |-> o, areaOk |-> a]

NoCand == Cand(<<>>, FALSE, FALSE)

IsQuad(c) == c.ok /\ Len(c.pts) = 4

IsOkCand(c) == c.ok

SurvivorsAnyLen(cs) == SelectSeq(cs, IsOkCand)

\* .filter_map(Result::ok).filter(|c| c.len() == 4).map(|c| Poly(c))
Survivors(cs) == SelectSeq(cs, IsQuad)

\* the area Ord::cmp compares: contour_area_def(..).unwrap_or(0.0), doubled
CmpArea2(c) == IF c.areaOk THEN ContourArea2(c.pts) ELSE 0

\* Ord::cmp(a, b) = Greater
CmpGreater(a, b) == CmpArea2(a) > CmpArea2(b)

\* Iterator::max: fold keeping the accumulator only when it is Greater, so
\* the last of several maximal elements is returned
RECURSIVE FoldMax(_, _)
FoldMax(acc, s) ==
    IF s = <<>> THEN acc
    ELSE FoldMax(IF CmpGreater(acc, Head(s)) THEN acc ELSE Head(s), Tail(s))

\* .max(): NoCand stands for None
MaxPoly(s) == IF s = <<>> THEN NoCand ELSE FoldMax(Head(s), Tail(s))

(* ------------------------- rectangle and warp ------------------------- *)
ZeroPt == Pt(0, 0)

NoRect == [top_left |-> ZeroPt, top_right |-> ZeroPt,
           bottom_right |-> ZeroPt, bottom_left |-> ZeroPt]

\* Rect { top_left: get(2), top_right: get(3), bottom_right: get(0), bottom_left: get(1) }
RectFrom(o) == [top_left |-> o[3], top_right |-> o[4],
                bottom_right |-> o[1], bottom_left |-> o[2]]

\* squares of max(left().length(), right().length()) and max(top().length(), bottom().length())
MaxHeight2(r) == Max2(LineLength2(r.bottom_left, r.top_left),
                      LineLength2(r.top_right, r.bottom_right))

MaxWidth2(r) == Max2(LineLength2(r.top_left, r.top_right),
                     LineLength2(r.bottom_right, r.bottom_left))

\* Into<Vector<Point2f>> for Rect: the source corners in the order handed to
\* get_perspective_transform
SrcCorners(r) == <<r.top_right, r.top_left, r.bottom_left, r.bottom_right>>

\* dst: fx, fy are the factors of (max_width - 1) and (max_height - 1)
DstCorners == <<[fx |-> 0, fy |-> 0], [fx |-> 1, fy |-> 0],
                [fx |-> 1, fy |-> 1], [fx |-> 0, fy |-> 1]>>

\* the source corner get_perspective_transform pairs with destination d
SrcFor(r, d) == SrcCorners(r)[CHOOSE i \in 1..4 : DstCorners[i] = d]

NoDims == [w2 |-> 0, h2 |-> 0]

(* --------------------------- row clustering --------------------------- *)
Box(bx, by, bh) == [x |-> bx, y |-> by, height |-> bh]

YLess(a, b) == a.y < b.y

XLess(a, b) == a.x < b.x

\* .sorted_by_key(|b| b.y)
SortByY(bs) == StableSort(bs, LessTable(bs, YLess))

UnsortedRow(bs) == bs

\* .sorted_by_key(|b| b.x)
SortByX(bs) == StableSort(bs, LessTable(bs, XLess))

RECURSIVE SumHeight(_)
SumHeight(bs) == IF bs = <<>> THEN 0 ELSE Head(bs).height + SumHeight(Tail(bs))

\* the mean of the heights as the pair (sum, n); n = 0 is the empty sample
Mean(bs) == [sum |-> SumHeight(bs), n |-> Len(bs)]

NoMean == [sum |-> 0, n |-> 0]

WithinDouble(b, current, mean) ==
    /\ mean.n > 0
    /\ mean.n * b.y <= mean.n * current.y + 2 * mean.sum

\* b.y as f64 <= current.y as f64 + mean_height / 2.0
\* (no comparison with the mean of an empty sample succeeds)
Within(b, current, mean) ==
    /\ mean.n > 0
    /\ 2 * mean.n * b.y <= 2 * mean.n * current.y + mean.sum

\* how many leading boxes of it take_while yields
RECURSIVE TakeCount(_, _, _)
TakeCount(it, current, mean) ==
    IF it = <<>> \/ ~Within(Head(it), current, mean) THEN 0
    ELSE 1 + TakeCount(Tail(it), current, mean)

\* .batching(..): current is peeked on a clone; take_while runs on the
\* iterator itself, so the first box that fails the test is consumed too
RECURSIVE Batching(_, _)
Batching(it, mean) ==
    IF it = <<>> THEN <<>>
    ELSE LET k == TakeCount(it, Head(it), mean)
         IN  <<SortByX(SubSeq(it, 1, k))>> \o Batching(SubSeq(it, k + 2, Len(it)), mean)

(* ------------------------------ inputs -------------------------------- *)
Points == {Pt(px, py) : px \in 0..MaxCoord, py \in 0..MaxCoord}

Cross(o, a, b) == (a.x - o.x) * (b.y - o.y) - (a.y - o.y) * (b.x - o.x)

Turns(q) == {Cross(q[1], q[2], q[3]), Cross(q[2], q[3], q[4]),
             Cross(q[3], q[4], q[1]), Cross(q[4], q[1], q[2])}

\* what approx_poly_dp of a convex hull can give with 4 vertices: a strictly
\* convex quadrilateral, from any start vertex, in either winding
ConvexQuads ==
    {q \in {<<a, b, c, d>> : a \in Points, b \in Points, c \in Points, d \in Points} :
        (\A t \in Turns(q) : t > 0) \/ (\A t \in Turns(q) : t < 0)}

SamplePolys ==
    { <<Pt(0, 0), Pt(2, 0), Pt(0, 2)>>,
      <<Pt(0, 0), Pt(1, 0), Pt(1, 1), Pt(0, 1)>>,
      <<Pt(2, 2), Pt(0, 2), Pt(0, 0), Pt(2, 0)>>,
      <<Pt(3, 0), Pt(0, 0), Pt(0, 2), Pt(3, 2)>> }

Candidates == {Cand(p, o, a) : p \in SamplePolys, o \in BOOLEAN, a \in BOOLEAN}

SeqsUpTo(S, n) == UNION {[1..k -> S] : k \in 0..n}

\* the contours find_contours can hand to the selection
ContourInputs == SeqsUpTo(Candidates, MaxContours)

BoxValues == {Box(bx, by, bh) : bx \in 0..MaxX, by \in 0..MaxY, bh \in 1..MaxH}

\* a ruled grid of nr x nc cells of height h, rows gap apart, in the order
\* the contours were traced (row-major, or its reverse)
GridBoxes(nr, nc, h, gap, rev) ==
    [i \in 1..(nr * nc) |->
        LET k == IF rev THEN nr * nc - i ELSE i - 1
        IN  Box((k % nc) * h, (k \div nc) * gap, h)]

GridInputs ==
    {GridBoxes(nr, nc, h, h + e, rev) :
        nr \in 1..MaxGridRows, nc \in 1..MaxGridCols, h \in 1..MaxH,
        e \in 0..1, rev \in BOOLEAN}

\* the bounding boxes Table::try_from can detect
BoxInputs == SeqsUpTo(BoxValues, MaxBoxes) \cup GridInputs

DetectedSamples ==
    { <<>>,
      <<Box(0, 0, 1)>>,
      <<Box(1, 0, 1), Box(0, 0, 1)>>,
      <<Box(0, 2, 1), Box(0, 0, 1)>> }

(* ------------------------------ actions ------------------------------- *)
\* a `?` that returns Err from imgproc_pipeline: nothing after it runs
Fail ==
    /\ pc' = "main"
    /\ result' = "err"

\* main.rs: imread_def(..)?
Imread ==
    /\ pc = "imread"
    /\ \E ok \in BOOLEAN : pc' = IF ok THEN "prepare" ELSE "done"
    /\ ran' = ran \cup {"imread"}
    /\ UNCHANGED <<contours, biggest, ordered, biggest_rect, dims, boxes,
                   mean_height, rows, result, written>>

\* copy, gray, blur, threshold, denoise, canny, find_contours
Prepare ==
    /\ pc = "prepare"
    /\ ran' = ran \cup {"prepare"}
    /\ \E ok \in BOOLEAN, cs \in ContourInputs :
          IF ok THEN /\ contours' = cs
                     /\ pc' = "select"
                     /\ UNCHANGED result
                ELSE /\ Fail
                     /\ UNCHANGED contours
    /\ UNCHANGED <<biggest, ordered, biggest_rect, dims, boxes, mean_height,
                   rows, written>>

\* .filter(..).map(Poly).max().ok_or(..)?
SelectBiggest ==
    /\ pc = "select"
    /\ ran' = ran \cup {"select"}
    /\ LET s == Survivors(contours)
       IN  IF MaxPoly(s) # NoCand
           THEN /\ biggest' = MaxPoly(s)
                /\ pc' = "order"
                /\ UNCHANGED result
           ELSE /\ Fail
                /\ UNCHANGED biggest
    /\ UNCHANGED <<contours, ordered, biggest_rect, dims, boxes, mean_height,
                   rows, written>>

\* .order().ok_or(..)?
OrderBiggest ==
    /\ pc = "order"
    /\ ran' = ran \cup {"order"}
    /\ IF OrderIsSome(biggest.pts)
       THEN /\ ordered' = Order(biggest.pts)
            /\ pc' = "rect"
            /\ UNCHANGED result
       ELSE /\ Fail
            /\ UNCHANGED ordered
    /\ UNCHANGED <<contours, biggest, biggest_rect, dims, boxes, mean_height,
                   rows, written>>

\* Rect { top_left: biggest_rect.get(2)?, .. }: get fails past the end
MakeRect ==
    /\ pc = "rect"
    /\ ran' = ran \cup {"rect"}
    /\ IF Len(ordered) >= 4
       THEN /\ biggest_rect' = RectFrom(ordered)
            /\ pc' = "transform"
            /\ UNCHANGED result
       ELSE /\ Fail
            /\ UNCHANGED biggest_rect
    /\ UNCHANGED <<contours, biggest, ordered, dims, boxes, mean_height, rows,
                   written>>

\* max_height, max_width, dst, get_perspective_transform(..)?
Transform ==
    /\ pc = "transform"
    /\ ran' = ran \cup {"transform"}
    /\ dims' = [w2 |-> MaxWidth2(biggest_rect), h2 |-> MaxHeight2(biggest_rect)]
    /\ \E ok \in BOOLEAN :
          IF ok THEN pc' = "warp" /\ UNCHANGED result ELSE Fail
    /\ UNCHANGED <<contours, biggest, ordered, biggest_rect, boxes,
                   mean_height, rows, written>>

\* warp_perspective_def(..)?
Warp ==
    /\ pc = "warp"
    /\ ran' = ran \cup {"warp"}
    /\ \E ok \in BOOLEAN :
          IF ok THEN pc' = "binary" /\ UNCHANGED result ELSE Fail
    /\ UNCHANGED <<contours, biggest, ordered, biggest_rect, dims, boxes,
                   mean_height, rows, written>>

\* denoise, threshold, sharpen, OCRTesseract::create
Binary ==
    /\ pc = "binary"
    /\ ran' = ran \cup {"binary"}
    /\ \E ok \in BOOLEAN :
          IF ok THEN pc' = "table" /\ UNCHANGED result ELSE Fail
    /\ UNCHANGED <<contours, biggest, ordered, biggest_rect, dims, boxes,
                   mean_height, rows, written>>

\* Table::try_from up to find_contours_def: the contours of the cells
TableContours ==
    /\ pc = "table"
    /\ ran' = ran \cup {"table"}
    /\ \E ok \in BOOLEAN, bs \in DetectedSamples :
          IF ok THEN /\ boxes' = bs
                     /\ pc' = "sort"
                     /\ UNCHANGED result
                ELSE /\ Fail
                     /\ UNCHANGED boxes
    /\ UNCHANGED <<contours, biggest, ordered, biggest_rect, dims,
                   mean_height, rows, written>>

\* boxes: bounding_rect, sorted_by_key(|b| b.y)
SortBoxes ==
    /\ pc = "sort"
    /\ boxes' = SortByY(boxes)
    /\ pc' = "mean"
    /\ UNCHANGED <<contours, biggest, ordered, biggest_rect, dims,
                   mean_height, rows, result, written, ran>>

\* mean_height
MeanHeight ==
    /\ pc = "mean"
    /\ mean_height' = Mean(boxes)
    /\ pc' = "cluster"
    /\ UNCHANGED <<contours, biggest, ordered, biggest_rect, dims, boxes,
                   rows, result, written, ran>>

\* rows, Ok(Table { image, rows })
ClusterRows ==
    /\ pc = "cluster"
    /\ rows' = Batching(boxes, mean_height)
    /\ pc' = "draw"
    /\ ran' = ran \cup {"tableOk"}
    /\ UNCHANGED <<contours, biggest, ordered, biggest_rect, dims, boxes,
                   mean_height, result, written>>

\* cvt_color, rectangle_def for every box of every row, return Ok(image)
DrawBoxes ==
    /\ pc = "draw"
    /\ ran' = ran \cup {"draw"}
    /\ \E ok \in BOOLEAN :
          IF ok THEN pc' = "main" /\ result' = "ok" ELSE Fail
    /\ UNCHANGED <<contours, biggest, ordered, biggest_rect, dims, boxes,
                   mean_height, rows, written>>

\* main.rs: imgproc_pipeline(img)? returned Ok, imwrite_def(..)
Imwrite ==
    /\ pc = "main"
    /\ result = "ok"
    /\ pc' = "done"
    /\ \E ok \in BOOLEAN : written' = ok
    /\ UNCHANGED <<contours, biggest, ordered, biggest_rect, dims, boxes,
                   mean_height, rows, result, ran>>

\* main.rs: imgproc_pipeline(img)? returned Err, main returns it
MainErr ==
    /\ pc = "main"
    /\ result = "err"
    /\ pc' = "done"
    /\ UNCHANGED <<contours, biggest, ordered, biggest_rect, dims, boxes,
                   mean_height, rows, result, written, ran>>

Blank ==
    /\ contours = <<>>
    /\ biggest = NoCand
    /\ ordered = <<>>
    /\ biggest_rect = NoRect
    /\ dims = NoDims
    /\ boxes = <<>>
    /\ mean_height = NoMean
    /\ rows = <<>>
    /\ result = "none"
    /\ written = FALSE

\* main started
Init ==
    /\ pc = "imread"
    /\ ran = {}
    /\ Blank

Next ==
    \/ Imread
    \/ Prepare
    \/ SelectBiggest
    \/ OrderBiggest
    \/ MakeRect
    \/ Transform
    \/ Warp
    \/ Binary
    \/ TableContours
    \/ SortBoxes
    \/ MeanHeight
    \/ ClusterRows
    \/ DrawBoxes
    \/ Imwrite
    \/ MainErr

Spec == Init /\ [][Next]_vars

\* Poly::order, the role permutation and the pairing, on every convex
\* quadrilateral of the grid
InitOrder ==
    /\ pc = "order"
    /\ ran = {"imread", "prepare", "select"}
    /\ contours = <<>>
    /\ \E q \in ConvexQuads : biggest = Cand(q, TRUE, TRUE)
    /\ ordered = <<>>
    /\ biggest_rect = NoRect
    /\ dims = NoDims
    /\ boxes = <<>>
    /\ mean_height = NoMean
    /\ rows = <<>>
    /\ result = "none"
    /\ written = FALSE

NextOrder ==
    \/ OrderBiggest
    \/ MakeRect
    \/ Transform

SpecOrder == InitOrder /\ [][NextOrder]_vars

\* the row clustering of Table::try_from on every list of detected boxes
InitRows ==
    /\ pc = "sort"
    /\ ran = {"imread", "prepare", "select", "order", "rect", "transform",
              "warp", "binary", "table"}
    /\ contours = <<>>
    /\ biggest = NoCand
    /\ ordered = <<>>
    /\ biggest_rect = NoRect
    /\ dims = NoDims
    /\ boxes \in BoxInputs
    /\ mean_height = NoMean
    /\ rows = <<>>
    /\ result = "none"
    /\ written = FALSE

NextRows ==
    \/ SortBoxes
    \/ MeanHeight
    \/ ClusterRows

SpecRows == InitRows /\ [][NextRows]_vars

(* ------------------------------ claims -------------------------------- *)
Range(s) == {s[i] : i \in 1..Len(s)}

Count(e, s) == Cardinality({i \in 1..Len(s) : s[i] = e})

RECURSIVE Flatten(_)
Flatten(ss) == IF ss = <<>> THEN <<>> ELSE Head(ss) \o Flatten(Tail(ss))

SameBag(s, t) ==
    /\ Len(s) = Len(t)
    /\ \A e \in Range(s) \cup Range(t) : Count(e, s) = Count(e, t)

SortedByX(row) == \A i \in 1..Len(row) : \A j \in 1..Len(row) : i < j => row[i].x <= row[j].x

Clustered == pc = "draw" /\ boxes # <<>>

\* C1: after the row clustering of a non-empty list of boxes, the boxes over
\* all rows are exactly the input boxes: same count, none dropped, none
\* duplicated.
C1_EveryBoxInOneRow == Clustered => SameBag(Flatten(rows), boxes)

UniformHeight(bs) == \A i \in 1..Len(bs) : bs[i].height = bs[1].height

YsOf(bs) == {bs[i].y : i \in 1..Len(bs)}

RowAt(bs, yy) == {i \in 1..Len(bs) : bs[i].y = yy}

\* the boxes are the cells of a grid of nr rows by nc columns of equal height
IsGrid(bs, nr, nc) ==
    /\ bs # <<>>
    /\ UniformHeight(bs)
    /\ Cardinality(YsOf(bs)) = nr
    /\ \A yy \in YsOf(bs) :
          /\ Cardinality(RowAt(bs, yy)) = nc
          /\ \A i \in RowAt(bs, yy) : \A j \in RowAt(bs, yy) : i # j => bs[i].x # bs[j].x
    /\ \A y1 \in YsOf(bs) : \A y2 \in YsOf(bs) : y1 < y2 => y2 - y1 >= bs[1].height

\* C2: the boxes of a grid of R rows by C columns of equal cells are clustered
\* into exactly R rows of exactly C boxes each, every row sorted by ascending x.
C2_GridGivesRowsByCols ==
    \A nr \in 1..MaxGridRows : \A nc \in 1..MaxGridCols :
        (Clustered /\ IsGrid(boxes, nr, nc)) =>
            /\ Len(rows) = nr
            /\ \A r \in 1..Len(rows) : Len(rows[r]) = nc /\ SortedByX(rows[r])

TableRanOnNoBoxes ==
    /\ "table" \in ran
    /\ pc \notin {"sort", "mean", "cluster"}
    /\ boxes = <<>>

\* C3: with no detected box, Table::try_from returns an error: no Table is
\* returned, the pipeline returns no image and none is written.
C3_NoBoxesIsError ==
    TableRanOnNoBoxes => ("tableOk" \notin ran /\ result # "ok" /\ ~written)

NoQuadContour == \A i \in 1..Len(contours) : ~(contours[i].ok /\ Len(contours[i].pts) = 4)

LaterStages == {"order", "rect", "transform", "warp", "binary", "table", "tableOk", "draw"}

\* C4: when no traced contour simplifies to a polygon of exactly 4 vertices
\* (zero contours included), the selection returns an error: no polygon is
\* taken, no later stage runs and main writes no image.
C4_NoQuadIsError ==
    ("select" \in ran /\ NoQuadContour) =>
        /\ pc \in {"main", "done"}
        /\ result = "err"
        /\ biggest = NoCand
        /\ ran \cap LaterStages = {}
        /\ ~written

C4_Witness ==
    /\ "select" \in ran
    /\ NoQuadContour
    /\ contours # <<>>
    /\ pc = "done"
    /\ result = "err"

MinX(q) == CHOOSE v \in {q[i].x : i \in 1..4} : \A i \in 1..4 : v <= q[i].x

MaxXOf(q) == CHOOSE v \in {q[i].x : i \in 1..4} : \A i \in 1..4 : v >= q[i].x

MinY(q) == CHOOSE v \in {q[i].y : i \in 1..4} : \A i \in 1..4 : v <= q[i].y

MaxYOf(q) == CHOOSE v \in {q[i].y : i \in 1..4} : \A i \in 1..4 : v >= q[i].y

\* the polygon's vertices are the corners of an axis-aligned rectangle
IsAxisRect(q) ==
    /\ Len(q) = 4
    /\ Range(q) = {Pt(MinX(q), MinY(q)), Pt(MaxXOf(q), MinY(q)),
                   Pt(MaxXOf(q), MaxYOf(q)), Pt(MinX(q), MaxYOf(q))}
    /\ MinX(q) < MaxXOf(q)
    /\ MinY(q) < MaxYOf(q)

\* C5: for a detected polygon that is an axis-aligned rectangle of size W x H,
\* from any start vertex and in either winding, max_width is W, max_height
\* is H, and the destination corners (0,0), (max_width-1,0),
\* (max_width-1,max_height-1), (0,max_height-1) are paired with the
\* rectangle's top-left, top-right, bottom-right and bottom-left corners.
C5_RectangleKeepsSizeAndCorners ==
    (pc = "warp" /\ IsAxisRect(biggest.pts)) =>
        LET q == biggest.pts
            w == MaxXOf(q) - MinX(q)
            h == MaxYOf(q) - MinY(q)
        IN  /\ dims = [w2 |-> w * w, h2 |-> h * h]
            /\ SrcFor(biggest_rect, [fx |-> 0, fy |-> 0]) = Pt(MinX(q), MinY(q))
            /\ SrcFor(biggest_rect, [fx |-> 1, fy |-> 0]) = Pt(MaxXOf(q), MinY(q))
            /\ SrcFor(biggest_rect, [fx |-> 1, fy |-> 1]) = Pt(MaxXOf(q), MaxYOf(q))
            /\ SrcFor(biggest_rect, [fx |-> 0, fy |-> 1]) = Pt(MinX(q), MaxYOf(q))

Ordered == pc = "rect" /\ "order" \in ran

\* C6 as stated: for every convex 4-vertex polygon, in any vertex order,
\* Poly::order of the result of Poly::order is that same result.
C6_OrderIdempotent == Ordered => Order(ordered) = ordered

NoVertexAtCenter(poly) == \A i \in 1..Len(poly) : poly[i] # Center(poly)

\* C6 amended: for every convex 4-vertex polygon none of whose vertices
\* coincides with the integer-truncated centroid, in any vertex order,
\* Poly::order of the result of Poly::order is that same result.
C6_OrderIdempotentNoDiscard ==
    (Ordered /\ NoVertexAtCenter(biggest.pts)) => Order(ordered) = ordered

C6_Witness ==
    /\ Ordered
    /\ NoVertexAtCenter(biggest.pts)
    /\ Len(ordered) = 4
    /\ ordered # biggest.pts
    /\ Order(ordered) = ordered
    /\ \E i \in 1..4 : \E j \in 1..4 :
          /\ i # j
          /\ ~AngleLess(Translate(ordered)[i], Translate(ordered)[j])
          /\ ~AngleLess(Translate(ordered)[j], Translate(ordered)[i])

PairwiseApart(bs, d) ==
    \A i \in 1..Len(bs) : \A j \in 1..Len(bs) : i # j => Abs(bs[i].y - bs[j].y) > d

\* C7: for a non-empty list of boxes of one height h whose y-values are
\* pairwise more than h apart, every row of the clustering holds exactly one
\* box.
C7_SpacedBoxesOnePerRow ==
    (Clustered /\ UniformHeight(boxes) /\ PairwiseApart(boxes, boxes[1].height)) =>
        /\ rows # <<>>
        /\ \A r \in 1..Len(rows) : Len(rows[r]) = 1

C7_Witness ==
    /\ Clustered
    /\ Len(boxes) >= 2
    /\ UniformHeight(boxes)
    /\ PairwiseApart(boxes, boxes[1].height)
    /\ rows # <<>>
    /\ \A r \in 1..Len(rows) : Len(rows[r]) = 1

SameY(bs) == \A i \in 1..Len(bs) : bs[i].y = bs[1].y

\* C8: for one or more boxes that all have the same y and the same height,
\* the clustering gives exactly one row, holding all the boxes sorted by
\* ascending x.
C8_SameYOneSortedRow ==
    (Clustered /\ SameY(boxes) /\ UniformHeight(boxes)) =>
        /\ Len(rows) = 1
        /\ SameBag(rows[1], boxes)
        /\ SortedByX(rows[1])

C8_Witness ==
    /\ Clustered
    /\ SameY(boxes)
    /\ UniformHeight(boxes)
    /\ Len(boxes) >= 2
    /\ ~SortedByX(boxes)
    /\ Len(rows) = 1
    /\ SortedByX(rows[1])

\* C9: the polygon .max() selects has an area that was computed and is at
\* least the area of every other candidate whose area was computed; when the
\* area of every candidate fails, no polygon is selected.
C9_MaxIsValidMaximum ==
    ("select" \in ran) =>
        LET s == Survivors(contours)
        IN  /\ biggest # NoCand =>
                  /\ biggest.areaOk
                  /\ \A i \in 1..Len(s) :
                        s[i].areaOk => ContourArea2(biggest.pts) >= ContourArea2(s[i].pts)
            /\ (\A i \in 1..Len(s) : ~s[i].areaOk) => biggest = NoCand

\* the vertices of poly that do not coincide with its truncated centroid
OffCenter(poly) == SelectSeq(poly, LAMBDA p : p # Center(poly))

OwnAngle(poly, p) == Pt(p.x - Center(poly).x, p.y - Center(poly).y)

\* C10: the result of Poly::order holds exactly the vertices that do not
\* coincide with the truncated centroid, in ascending order of the angle of
\* that same vertex, also when a vertex coincides with the centroid and is
\* discarded.
C10_SortedByOwnAngle ==
    Ordered =>
        LET poly == biggest.pts
        IN  /\ SameBag(ordered, OffCenter(poly))
            /\ \A i \in 1..Len(ordered) : \A j \in 1..Len(ordered) :
                  i < j => ~AngleLess(OwnAngle(poly, ordered[j]), OwnAngle(poly, ordered[i]))

====
